---- MODULE Spec2Model ----
\* Secure-document envelope pipeline of server/services/enhanced-ai.service.ts:
\* DocumentService (generateSecureDocument, wrapWithSecurity, verifyDocument) and
\* EnhancedDocumentService (generateSecureDocument and its steps).
\* Cryptographic values are symbolic: a ciphertext records the key, the IV and the
\* plaintext it was made from, and a "flip" mark when a byte of it was changed.
EXTENDS Integers, Sequences, FiniteSets, TLC

\* ------------------------------------------------------------------ bounds
\* generateSecureDocument calls in a run; key pairs the configuration may name
MaxCalls == 2
NumKeyPairs == 2

\* ------------------------------------------------------------------ data
IdNumbers == {"none", "8001015009087"}
DataDocumentTypes == {"none", "id_card"}
BiometricBlobs == {"none", "fingerprint"}
\* the `data: any` argument; "none" is a missing (falsy) field
Data == [idNumber : IdNumbers, documentType : DataDocumentTypes, biometrics : BiometricBlobs]
\* the documentType argument of DocumentService.generateSecureDocument:
\* "passport" has a case in addDocumentContent, "other" falls through the switch
ContentTypes == {"passport", "other"}

KeyPairs == 1 .. NumKeyPairs
NoKey == 0 - 1
AttackerKey == 0 - 2
NoData == [idNumber |-> "none", documentType |-> "none", biometrics |-> "none"]

\* ------------------------------------------------------------------ serviceConfig
\* serviceConfig.documents.pki: the key pair ids of publicKey and privateKey (they
\* match when equal); serviceConfig.security.biometric: the biometric master key.
VARIABLE pki
MasterKey == 100
\* EnhancedDocumentService.securityConfig, the flags addAdvancedSecurity and
\* finalizeDocument read
VARIABLE securityConfig
DefaultSecurityConfig ==
  [watermark |-> TRUE, hologram |-> TRUE, microprint |-> TRUE, uvFeatures |-> TRUE,
   rfidChip |-> TRUE, quantumEncryption |-> TRUE]
SecurityConfigs ==
  [watermark : BOOLEAN, hologram : BOOLEAN, microprint : BOOLEAN, uvFeatures : BOOLEAN,
   rfidChip : BOOLEAN, quantumEncryption : BOOLEAN]

\* ------------------------------------------------------------------ JSON
\* JSON.stringify(data) of a plain object: a string that parses back to the object.
JsonOfData(d) == [kind |-> "object", d |-> d]
\* JSON.stringify of the bytes of a saved PDF (a Uint8Array): the string of an object
\* keyed by index; parsing gives that plain object, not the bytes and not the data.
JsonOfBytes(pdf) == [kind |-> "indexed", d |-> pdf.d]

\* ------------------------------------------------------------------ signer
\* this.security.sign / this.security.verify (initializeDocumentSecurity)
SecuritySign(msg) == [msg |-> msg, forged |-> FALSE]
SecurityVerify(msg, sig) == sig.forged = FALSE /\ sig.msg = msg

\* ------------------------------------------------------------------ crypto
\* crypto.publicEncrypt(publicKey, k)
PublicEncrypt(pub, k) == [pub |-> pub, k |-> k, flip |-> 0]
\* crypto.privateDecrypt(privateKey, w): throws unless the key matches and w is intact
PrivateDecryptOk(priv, w) == w.pub = priv /\ w.flip = 0
PrivateDecrypt(priv, w) == IF PrivateDecryptOk(priv, w) THEN w.k ELSE NoKey
\* crypto.privateEncrypt(privateKey, m): readable with the PUBLIC key of the pair
PrivateEncrypt(priv, m) == [alg |-> "rsa-private", key |-> priv, iv |-> 0, pt |-> m]
\* aes-256-gcm, cipher.update + cipher.final
GcmEncrypt(k, iv, pt) == [k |-> k, iv |-> iv, pt |-> pt, flip |-> 0]
\* cipher.getAuthTag() of that encryption
GcmTag(k, iv, pt) == [set |-> TRUE, k |-> k, iv |-> iv, pt |-> pt]
\* decipher.update(ct) under key k and IV iv: the plaintext, or noise g when the key,
\* the IV or the ciphertext is not the one of the encryption
GcmUpdate(k, iv, ct, g) == IF ct.k = k /\ ct.iv = iv /\ ct.flip = 0 THEN ct.pt ELSE g
\* decipher.final(): throws unless setAuthTag was called with the tag of exactly this
\* key, IV and ciphertext
DecipherFinalOk(tag, k, iv, ct) ==
  /\ tag.set
  /\ ct.k = k /\ ct.iv = iv /\ ct.flip = 0
  /\ tag.k = k /\ tag.iv = iv /\ tag.pt = ct.pt

\* ------------------------------------------------------------------ state
\* rng: how many values crypto.randomBytes has handed out (the n-th draw is n: a
\*      cryptographic random source does not repeat)
\* clock: Date.now()
\* issued: the envelopes DocumentService.generateSecureDocument has returned
\* last: the most recent call, its input and what its caller observed
\* calls: the calls in flight when calls interleave at their awaits, in the order
\*        they started: each one's inputs, position, local values and result
VARIABLES rng, clock, issued, last, calls
vars == <<pki, securityConfig, rng, clock, issued, last, calls>>

\* ------------------------------------------------------------------ DocumentService
NoSignature == [msg |-> JsonOfData(NoData), forged |-> TRUE]
NoBiometric == [alg |-> "none", key |-> NoKey, iv |-> 0, pt |-> "none"]
NoDocument == [repr |-> "absent", d |-> NoData, bio |-> NoBiometric]
NoMetadata == [timestamp |-> 0, issuer |-> "none", verificationEndpoint |-> "none"]

\* addBiometricData: crypto.privateEncrypt under serviceConfig.documents.pki.privateKey
addBiometricData(priv, biometrics) == PrivateEncrypt(priv, biometrics)

\* addSecurityFeatures: hologram randomBytes(32), uvFeatures randomBytes(64),
\* securityThread randomBytes(48), drawn in that order from draw r on
addSecurityFeatures(r) == [hologram |-> r + 1, uvFeatures |-> r + 2, securityThread |-> r + 3]

\* generateVerificationQR: {docType, id, hash: sha256(JSON.stringify(data))}
generateVerificationQR(d) == [docType |-> d.documentType, hash |-> [sha256 |-> JsonOfData(d)]]

\* pdfDoc.save(): the bytes of the PDF with the rendered data and the attachment
PdfSave(d, bio) == [repr |-> "bytes", d |-> d, bio |-> bio]

\* the object wrapWithSecurity builds before encrypting (lines 332-342)
Wrapped(doc, now) ==
  [document |-> doc.pdf, signature |-> doc.signature, qrCode |-> doc.qrCode,
   securityFeatures |-> doc.securityFeatures,
   metadata |-> [timestamp |-> now, issuer |-> "DHA Digital Services",
                 verificationEndpoint |-> "/api/verify"]]

\* JSON.stringify(wrapped) followed by JSON.parse: the document bytes come back as a
\* plain index-keyed object
JsonStringify(w) == [wellformed |-> TRUE, w |-> [w EXCEPT !.document.repr = "indexed"]]
JsonParseOk(text) == text.wellformed
JsonParse(text) == text.w
\* what decipher.update gives for a wrong key, a wrong IV or a changed ciphertext
Garbage == [wellformed |-> FALSE,
            w |-> [document |-> NoDocument, signature |-> NoSignature,
                   qrCode |-> generateVerificationQR(NoData),
                   securityFeatures |-> addSecurityFeatures(0),
                   metadata |-> NoMetadata]]
\* a decipher on which setAuthTag was never called; an envelope without a tag
NoTag == [set |-> FALSE, k |-> NoKey, iv |-> 0, pt |-> Garbage]

\* the steps of wrapWithSecurity that can throw: the random source (345-346),
\* createCipheriv / update / final (348-357), publicEncrypt (361-364)
SealFaults == {"none", "random", "cipher", "wrap"}
NoEnvelope == [package |-> GcmEncrypt(NoKey, 0, Garbage), key |-> PublicEncrypt(0, NoKey),
               iv |-> 0, authTag |-> NoTag, present |-> {}]

\* wrapWithSecurity(doc): the fresh key is draw r+1, the IV draw r+2; the returned
\* object has the fields package, key and iv (no authentication tag is taken from the
\* cipher); a throwing step rejects the call
\* a key taken once and kept, not drawn per call
WrapKeyDraw_Static(r) == 1
WrapKeyDraw(r) == r + 1
WrapIvDraw(r) == r + 2
\* a wrapWithSecurity that swallows a failed key wrap and returns what it has
wrapWithSecurity_PartialOnWrapFault(doc, pub, r, now, fault) ==
  LET encryptionKey == WrapKeyDraw(r)
      iv == WrapIvDraw(r)
      encrypted == GcmEncrypt(encryptionKey, iv, JsonStringify(Wrapped(doc, now)))
  IN IF fault \in {"random", "cipher"}
       THEN [threw |-> TRUE, error |-> fault, envelope |-> NoEnvelope,
             draws |-> IF fault = "random" THEN 0 ELSE 2]
       ELSE [threw |-> FALSE, error |-> "none",
             envelope |-> [package |-> encrypted,
                           key |-> IF fault = "wrap" THEN PublicEncrypt(0, NoKey)
                                                     ELSE PublicEncrypt(pub, encryptionKey),
                           iv |-> iv, authTag |-> NoTag,
                           present |-> IF fault = "wrap" THEN {"package", "iv"}
                                                          ELSE {"package", "key", "iv"}],
             draws |-> 2]
wrapWithSecurity(doc, pub, r, now, fault) ==
  LET encryptionKey == WrapKeyDraw(r)
      iv == WrapIvDraw(r)
      encrypted == GcmEncrypt(encryptionKey, iv, JsonStringify(Wrapped(doc, now)))
  IN IF fault # "none"
       THEN [threw |-> TRUE, error |-> fault, envelope |-> NoEnvelope,
             draws |-> IF fault = "random" THEN 0 ELSE 2]
       ELSE [threw |-> FALSE, error |-> "none",
             envelope |-> [package |-> encrypted, key |-> PublicEncrypt(pub, encryptionKey),
                           iv |-> iv, authTag |-> NoTag, present |-> {"package", "key", "iv"}],
             draws |-> 2]

\* DocumentService.generateSecureDocument(data, documentType). npr is the answer of
\* govServices.dha.get; contentOk is whether this.addPassportContent (called for
\* "passport", defined outside this file) returns; fault is the step of
\* wrapWithSecurity that throws. The call has no try/catch: a throw rejects it.
generateSecureDocument(d, documentType, npr, contentOk, fault, cfg, r, now) ==
  LET securityFeatures == addSecurityFeatures(r)
      bio == IF d.biometrics # "none" THEN addBiometricData(cfg.privateKey, d.biometrics)
                                      ELSE NoBiometric
      qrCode == generateVerificationQR(d)
      signature == SecuritySign(JsonOfData(d))
      doc == [pdf |-> PdfSave(d, bio), signature |-> signature, qrCode |-> qrCode,
              securityFeatures |-> securityFeatures]
      finalDoc == wrapWithSecurity(doc, cfg.publicKey, r + 3, now, fault)
  IN IF npr # "verified"
       THEN [threw |-> TRUE, error |-> "Identity verification failed",
             envelope |-> NoEnvelope, draws |-> 0]
     ELSE IF documentType = "passport" /\ ~contentOk
       THEN [threw |-> TRUE, error |-> "content", envelope |-> NoEnvelope, draws |-> 3]
     ELSE [finalDoc EXCEPT !.draws = 3 + finalDoc.draws]

\* ------------------------------------------------------------------ verifyDocument
\* the tag the decipher of verifyDocument holds: decipher.setAuthTag is never called
DecipherAuthTag(env) == NoTag

\* a catch block that fails open
VerificationFailed_FailOpen(error) ==
  [verified |-> TRUE, document |-> NoDocument, metadata |-> NoMetadata, error |-> "none"]
\* a catch block that hands the caught error's message to the caller
VerificationFailed_LeakReason(error) ==
  [verified |-> FALSE, document |-> NoDocument, metadata |-> NoMetadata, error |-> error]

\* the catch block: what the caller gets whatever was thrown (407-413)
VerificationFailed(error) ==
  [verified |-> FALSE, document |-> NoDocument, metadata |-> NoMetadata,
   error |-> "Document verification failed"]

\* the success return (401-405)
Verified(parsedDecrypted) ==
  [verified |-> TRUE, document |-> parsedDecrypted.document,
   metadata |-> parsedDecrypted.metadata, error |-> "none"]

\* a verifyDocument that releases whatever it decrypted once the key unwrapped,
\* without heeding decipher.final() or the signature check
verifyDocument_ChecksIgnored(priv, env) ==
  LET decryptionKey == PrivateDecrypt(priv, env.key)
      decrypted == GcmUpdate(decryptionKey, env.iv, env.package, Garbage)
  IN IF ~PrivateDecryptOk(priv, env.key)
       THEN [result |-> VerificationFailed("KeyUnwrapFailed"),
             steps |-> <<"unwrap">>, logged |-> "KeyUnwrapFailed"]
       ELSE [result |-> Verified(JsonParse(decrypted)),
             steps |-> <<"unwrap", "decrypt", "parse", "signature">>, logged |-> "none"]
\* a verifyDocument that goes on to decrypt with whatever privateDecrypt left behind
verifyDocument_UnwrapUnchecked(priv, env) ==
  LET decryptionKey == PrivateDecrypt(priv, env.key)
  IN IF ~DecipherFinalOk(DecipherAuthTag(env), decryptionKey, env.iv, env.package)
       THEN [result |-> VerificationFailed("TamperedCiphertext"),
             steps |-> <<"unwrap", "decrypt">>, logged |-> "TamperedCiphertext"]
       ELSE [result |-> Verified(JsonParse(GcmUpdate(decryptionKey, env.iv, env.package, Garbage))),
             steps |-> <<"unwrap", "decrypt", "parse", "signature">>, logged |-> "none"]

\* a verifyDocument that tries the decrypt a second time when it fails
verifyDocument_RetryDecrypt(priv, env) ==
  LET decryptionKey == PrivateDecrypt(priv, env.key)
  IN IF ~PrivateDecryptOk(priv, env.key)
       THEN [result |-> VerificationFailed("KeyUnwrapFailed"),
             steps |-> <<"unwrap">>, logged |-> "KeyUnwrapFailed"]
     ELSE IF ~DecipherFinalOk(DecipherAuthTag(env), decryptionKey, env.iv, env.package)
       THEN [result |-> VerificationFailed("TamperedCiphertext"),
             steps |-> <<"unwrap", "decrypt", "decrypt">>, logged |-> "TamperedCiphertext"]
     ELSE [result |-> Verified(JsonParse(GcmUpdate(decryptionKey, env.iv, env.package, Garbage))),
           steps |-> <<"unwrap", "decrypt", "parse", "signature">>, logged |-> "none"]

\* verifyDocument(encryptedDoc): result is what the caller gets, steps the checks that
\* ran (in order), logged the error console.error printed ("none" on success)
verifyDocument(priv, env) ==
  LET decryptionKey == PrivateDecrypt(priv, env.key)
      decrypted == GcmUpdate(decryptionKey, env.iv, env.package, Garbage)
      parsedDecrypted == JsonParse(decrypted)
  IN IF ~PrivateDecryptOk(priv, env.key)
       THEN [result |-> VerificationFailed("KeyUnwrapFailed"),
             steps |-> <<"unwrap">>, logged |-> "KeyUnwrapFailed"]
     ELSE IF ~DecipherFinalOk(DecipherAuthTag(env), decryptionKey, env.iv, env.package)
       THEN [result |-> VerificationFailed("TamperedCiphertext"),
             steps |-> <<"unwrap", "decrypt">>, logged |-> "TamperedCiphertext"]
     ELSE IF ~JsonParseOk(decrypted)
       THEN [result |-> VerificationFailed("MalformedEnvelope"),
             steps |-> <<"unwrap", "decrypt", "parse">>, logged |-> "MalformedEnvelope"]
     ELSE IF ~SecurityVerify(JsonOfBytes(parsedDecrypted.document), parsedDecrypted.signature)
       THEN [result |-> VerificationFailed("SignatureMismatch"),
             steps |-> <<"unwrap", "decrypt", "parse", "signature">>,
             logged |-> "SignatureMismatch"]
     ELSE [result |-> Verified(parsedDecrypted),
           steps |-> <<"unwrap", "decrypt", "parse", "signature">>, logged |-> "none"]

\* ------------------------------------------------------------------ EnhancedDocumentService
\* verifyInputData: the error it throws, "none" when it returns
verifyInputData(d) ==
  IF d.idNumber = "none" THEN "Invalid ID number"
  ELSE IF d.documentType = "none" THEN "Invalid document type"
  ELSE "none"

addDynamicWatermark == [type |-> "watermark", data |-> "watermark_data", verificationMethod |-> "optical"]
addHolographicElement == [type |-> "hologram", data |-> "hologram_data", verificationMethod |-> "specialized_scanner"]
addMicroprinting == [type |-> "microprint", data |-> "microprint_data", verificationMethod |-> "microscope"]
addUVFeatures == [type |-> "uv", data |-> "uv_data", verificationMethod |-> "uv_light"]
addRFIDData == [type |-> "rfid", data |-> "rfid_data", verificationMethod |-> "rfid_scanner"]

\* an addAdvancedSecurity whose RFID push is guarded by the UV flag
addAdvancedSecurity_WrongGuard(cfg) ==
     (IF cfg.watermark THEN <<addDynamicWatermark>> ELSE <<>>)
  \o (IF cfg.hologram THEN <<addHolographicElement>> ELSE <<>>)
  \o (IF cfg.microprint THEN <<addMicroprinting>> ELSE <<>>)
  \o (IF cfg.uvFeatures THEN <<addUVFeatures>> ELSE <<>>)
  \o (IF cfg.uvFeatures THEN <<addRFIDData>> ELSE <<>>)
\* addAdvancedSecurity: one push per enabled flag, in source order
addAdvancedSecurity(cfg) ==
     (IF cfg.watermark THEN <<addDynamicWatermark>> ELSE <<>>)
  \o (IF cfg.hologram THEN <<addHolographicElement>> ELSE <<>>)
  \o (IF cfg.microprint THEN <<addMicroprinting>> ELSE <<>>)
  \o (IF cfg.uvFeatures THEN <<addUVFeatures>> ELSE <<>>)
  \o (IF cfg.rfidChip THEN <<addRFIDData>> ELSE <<>>)

\* encryptBiometricData: aes-256-gcm under the master key with a fresh IV (draw r+1);
\* the output is IV || tag || ciphertext
encryptBiometricData(biometrics, r) ==
  [alg |-> "aes-256-gcm", key |-> MasterKey, iv |-> r + 1, pt |-> biometrics]

\* createDocumentHash: sha256 of JSON.stringify(data), hex
createDocumentHash(d) == [sha256 |-> JsonOfData(d)]

\* storeOnBlockchain(hash): the reference on success; the awaited backend call rejects
\* when the backend is unavailable
storeOnBlockchainOk(backend) == backend = "ok"
storeOnBlockchain(hash, now) == [stored |-> TRUE, timestamp |-> now, reference |-> hash]

\* addBlockchainVerification: no try/catch around the backend call
addBlockchainVerification(d, now) ==
  [hash |-> createDocumentHash(d),
   reference |-> storeOnBlockchain(createDocumentHash(d), now),
   timestamp |-> now]
NoBlockchain ==
  [hash |-> createDocumentHash(NoData),
   reference |-> [stored |-> FALSE, timestamp |-> 0, reference |-> createDocumentHash(NoData)],
   timestamp |-> 0]

\* applyQuantumEncryption: a placeholder that only marks the object
applyQuantumEncryption(doc) == [doc EXCEPT !.quantumProtected = TRUE]

\* finalizeDocument: the object returned to the caller; its fields are those of lines
\* 611-623 (quantumProtected is absent, here FALSE, without quantumEncryption)
finalizeDocument(d, bio, blockchainVerification, cfg, now) ==
  LET finalDoc ==
        [document |-> PdfSave(d, bio),
         verification |-> [blockchain |-> blockchainVerification,
                           qrCode |-> [blockchainRef |-> blockchainVerification.reference,
                                       issueDate |-> now],
                           securityFeatures |-> cfg],
         metadata |-> [issuedAt |-> now, issuer |-> "DHA-RSA", documentType |-> d.documentType],
         quantumProtected |-> FALSE]
  IN IF cfg.quantumEncryption THEN applyQuantumEncryption(finalDoc) ELSE finalDoc
NoFinalDoc ==
  [document |-> NoDocument,
   verification |-> [blockchain |-> NoBlockchain,
                     qrCode |-> [blockchainRef |-> NoBlockchain.reference, issueDate |-> 0],
                     securityFeatures |-> DefaultSecurityConfig],
   metadata |-> [issuedAt |-> 0, issuer |-> "none", documentType |-> "none"],
   quantumProtected |-> FALSE]

\* EnhancedDocumentService.generateSecureDocument(type, data). baseOk is whether
\* this.addBaseSecurityFeatures (reached through the class's index signature, defined
\* outside this file) returns; backend is the state of the anchoring backend. The catch
\* block reports the error and rethrows it: returned is FALSE and doc is NoFinalDoc.
\* features is the list addAdvancedSecurity returned, steps the steps that ran.
enhancedGenerateSecureDocument(d, baseOk, backend, cfg, r, now) ==
  LET bio == IF d.biometrics # "none" THEN encryptBiometricData(d.biometrics, r) ELSE NoBiometric
      draws == IF d.biometrics # "none" THEN 1 ELSE 0
      bioStep == IF d.biometrics # "none" THEN <<"addBiometricFeatures">> ELSE <<>>
      blockchainVerification == addBlockchainVerification(d, now)
      Thrown(e, st, f, n) == [threw |-> TRUE, error |-> e, doc |-> NoFinalDoc, steps |-> st,
                              features |-> f, draws |-> n]
  IN IF verifyInputData(d) # "none"
       THEN Thrown(verifyInputData(d), <<"verifyInputData">>, <<>>, 0)
     ELSE IF ~baseOk
       THEN Thrown("addBaseSecurityFeatures", <<"verifyInputData", "createBaseDocument">>, <<>>, 0)
     ELSE IF ~storeOnBlockchainOk(backend)
       THEN Thrown("AnchorUnavailable",
                   <<"verifyInputData", "createBaseDocument", "addAdvancedSecurity">>
                     \o bioStep \o <<"addBlockchainVerification">>,
                   addAdvancedSecurity(cfg), draws)
     ELSE [threw |-> FALSE, error |-> "none",
           doc |-> finalizeDocument(d, bio, blockchainVerification, cfg, now),
           steps |-> <<"verifyInputData", "createBaseDocument", "addAdvancedSecurity">>
                       \o bioStep \o <<"addBlockchainVerification", "finalizeDocument">>,
           features |-> addAdvancedSecurity(cfg), draws |-> draws]

\* ------------------------------------------------------------------ inputs of verifyDocument
\* one changed byte in a field of an envelope; the sealed envelope carries no tag, so
\* a changed tag is a tag field the holder put there
TamperFields == {"package", "key", "iv", "authTag"}
ForgedSignature == [msg |-> JsonOfData(NoData), forged |-> TRUE]
Tamper(env, field) ==
  CASE field = "package" -> [env EXCEPT !.package.flip = 1]
    [] field = "key" -> [env EXCEPT !.key.flip = 1]
    [] field = "iv" -> [env EXCEPT !.iv = 0]
    [] field = "authTag" -> [env EXCEPT !.authTag = GcmTag(AttackerKey, 0, Garbage)]
    [] OTHER -> env

\* an envelope made without the issuer: a key of the maker's own wrapped under a
\* public key, a blob that is noise or a well-formed package with a forged signature,
\* and the tag of that encryption
Forge(pub, wellformed) ==
  LET blob == IF wellformed
                THEN JsonStringify(Wrapped([pdf |-> PdfSave(NoData, NoBiometric),
                                            signature |-> ForgedSignature,
                                            qrCode |-> generateVerificationQR(NoData),
                                            securityFeatures |-> addSecurityFeatures(0)], 0))
                ELSE Garbage
  IN [package |-> GcmEncrypt(AttackerKey, 0, blob), key |-> PublicEncrypt(pub, AttackerKey),
      iv |-> 0, authTag |-> GcmTag(AttackerKey, 0, blob), present |-> {"package", "key", "iv"}]

\* ------------------------------------------------------------------ actions
\* key pair ids are interchangeable: the public key is pair 1, the private key any pair
Init ==
  /\ pki \in [publicKey : {1}, privateKey : KeyPairs]
  /\ securityConfig = DefaultSecurityConfig
  /\ rng = 0
  /\ clock = 0
  /\ issued = <<>>
  /\ last = [op |-> "none"]
  /\ calls = <<>>

\* a call of DocumentService.generateSecureDocument
DocGenerate ==
  /\ clock < MaxCalls
  /\ \E d \in Data, documentType \in ContentTypes, npr \in {"verified", "rejected"},
        contentOk \in BOOLEAN, fault \in SealFaults :
        \* an input the call never consumes is listed once
        /\ npr = "rejected" => (documentType = "other" /\ contentOk /\ fault = "none")
        /\ documentType = "other" => contentOk
        /\ ~contentOk => fault = "none"
        /\ LET out == generateSecureDocument(d, documentType, npr, contentOk, fault, pki,
                                             rng, clock + 1)
           IN /\ rng' = rng + out.draws
              /\ issued' = IF out.threw THEN issued ELSE Append(issued, out.envelope)
              /\ last' = [op |-> "generate", d |-> d, fault |-> fault, threw |-> out.threw,
                          error |-> out.error, envelope |-> out.envelope]
  /\ clock' = clock + 1
  /\ UNCHANGED <<pki, securityConfig, calls>>

\* a call of EnhancedDocumentService.generateSecureDocument
EnhancedGenerate ==
  /\ clock < MaxCalls
  /\ \E d \in Data, baseOk \in BOOLEAN, backend \in {"ok", "unavailable"} :
        \* an input the call never consumes is listed once
        /\ verifyInputData(d) # "none" => (baseOk /\ backend = "ok")
        /\ ~baseOk => backend = "ok"
        /\ LET out == enhancedGenerateSecureDocument(d, baseOk, backend, securityConfig,
                                                     rng, clock + 1)
           IN /\ rng' = rng + out.draws
              /\ last' = [op |-> "enhanced", d |-> d, baseOk |-> baseOk, backend |-> backend,
                          threw |-> out.threw, error |-> out.error, doc |-> out.doc,
                          steps |-> out.steps, features |-> out.features]
  /\ clock' = clock + 1
  /\ UNCHANGED <<pki, securityConfig, issued, calls>>

\* a call of verifyDocument on an issued envelope, as issued or with one byte changed
VerifyIssued ==
  /\ \E i \in 1 .. Len(issued), field \in TamperFields \cup {"none"} :
        LET env == Tamper(issued[i], field)
            out == verifyDocument(pki.privateKey, env)
        IN last' = [op |-> "verify", source |-> "issued", index |-> i, tamper |-> field,
                    env |-> env, result |-> out.result, steps |-> out.steps,
                    logged |-> out.logged]
  /\ UNCHANGED <<pki, securityConfig, rng, clock, issued, calls>>

\* a call of verifyDocument on an envelope the issuer never made
VerifyForged ==
  /\ \E pub \in KeyPairs, wellformed \in BOOLEAN :
        LET env == Forge(pub, wellformed)
            out == verifyDocument(pki.privateKey, env)
        IN last' = [op |-> "verify", source |-> "forged", index |-> 0, tamper |-> "none",
                    env |-> env, result |-> out.result, steps |-> out.steps,
                    logged |-> out.logged]
  /\ UNCHANGED <<pki, securityConfig, rng, clock, issued, calls>>

Next == DocGenerate \/ EnhancedGenerate \/ VerifyIssued \/ VerifyForged

Spec == Init /\ [][Next]_vars

\* the feature generator alone, over every configuration of the flags
InitFeatures ==
  /\ pki = [publicKey |-> 1, privateKey |-> 1]
  /\ securityConfig \in SecurityConfigs
  /\ rng = 0
  /\ clock = 0
  /\ issued = <<>>
  /\ last = [op |-> "none"]
  /\ calls = <<>>
NextFeatures == EnhancedGenerate
SpecFeatures == InitFeatures /\ [][NextFeatures]_vars

\* ------------------------------------------------------------------ serialization
\* A request as the caller built it: the fields of Data and the order in which its
\* keys were inserted. JSON.stringify writes the keys in insertion order, so the
\* string (JsonOfData) differs between two objects that hold the same mapping.
KeyOrders == {"idNumber,documentType", "documentType,idNumber"}
OrderedData ==
  [idNumber : IdNumbers, documentType : DataDocumentTypes, biometrics : BiometricBlobs,
   keys : KeyOrders]
\* the bytes handed to this.security.sign (line 221)
SignedBytes(d) == JsonOfData(d)
\* what one run signs and hashes for request d: the signed bytes, the preimage and
\* digest of the QR hash (289-291) and of the anchor hash (633-637), and the nonces
\* of the run drawn from draw r on
SignAndHashRun(d, r) ==
  [d |-> d,
   signed |-> SignedBytes(d),
   qrDigest |-> generateVerificationQR(d).hash,
   anchorDigest |-> createDocumentHash(d),
   nonces |-> addSecurityFeatures(r)]

\* runs of the signing and hashing steps on requests in either key order, each with
\* the same nonces
InitCanon ==
  /\ pki = [publicKey |-> 1, privateKey |-> 1]
  /\ securityConfig = DefaultSecurityConfig
  /\ rng = 0
  /\ clock = 0
  /\ issued = <<>>
  /\ last = [op |-> "sign-and-hash", runs |-> <<>>]
  /\ calls = <<>>
SignAndHash ==
  /\ Len(last.runs) < MaxCalls
  /\ \E d \in OrderedData :
        last' = [last EXCEPT !.runs = Append(@, SignAndHashRun(d, rng))]
  /\ UNCHANGED <<pki, securityConfig, rng, clock, issued, calls>>
NextCanon == SignAndHash
SpecCanon == InitCanon /\ [][NextCanon]_vars

\* ------------------------------------------------------------------ interleaved calls
\* Calls on one service instance interleave at their awaits. A step below is the code
\* between two awaits that touches something outside the call (the random source,
\* serviceConfig, this.securityConfig, the anchoring backend); the code between that
\* touches only the call's own locals is folded into the step that follows it.
\* how many calls are entered in one run of the interleaved model
MaxInFlight == 2
ConcData == {[idNumber |-> "8001015009087", documentType |-> "id_card",
              biometrics |-> "fingerprint"]}
\* the flags addAdvancedSecurity reads, one before each awaited feature, and the
\* feature each one guards
AdvancedFlags == <<"watermark", "hologram", "microprint", "uvFeatures", "rfidChip">>
AdvancedFeatures ==
  <<addDynamicWatermark, addHolographicElement, addMicroprinting, addUVFeatures, addRFIDData>>
\* the locals of a call that has just been entered
NewCall(kind, d, backend, now, cfg) ==
  [kind |-> kind, pc |-> "start", d |-> d, backend |-> backend, now |-> now, cfg0 |-> cfg,
   nonces |-> addSecurityFeatures(0), bio |-> NoBiometric, drawBase |-> 0, k |-> 1,
   features |-> <<>>, steps |-> <<>>, blockchainVerification |-> NoBlockchain,
   env |-> NoEnvelope, result |-> [threw |-> FALSE]]
\* a finalizeDocument that switches quantum encryption off once it has applied it
securityConfigAfter_SwitchesOff(cfg, step) ==
  IF step = "finalizeDocument" THEN [cfg EXCEPT !.quantumEncryption = FALSE] ELSE cfg
\* this.securityConfig after a step of a call: no step assigns to it or to a field of it
securityConfigAfter(cfg, step) == cfg

InitConc ==
  /\ pki = [publicKey |-> 1, privateKey |-> 1]
  /\ securityConfig = DefaultSecurityConfig
  /\ rng = 0
  /\ clock = 0
  /\ issued = <<>>
  /\ last = [op |-> "none"]
  /\ calls = <<>>

\* DocumentService.generateSecureDocument is entered; the NPR lookup answers verified
DocStart ==
  /\ clock < MaxInFlight
  /\ \E d \in ConcData :
        calls' = Append(calls, [NewCall("generate", d, "ok", clock + 1, securityConfig)
                                  EXCEPT !.pc = "hologram"])
  /\ clock' = clock + 1
  /\ UNCHANGED <<pki, securityConfig, rng, issued, last>>
\* generateHologram, generateUVFeatures, generateSecurityThread: one draw each
DocDraw(i) ==
  /\ calls[i].kind = "generate"
  /\ calls[i].pc \in {"hologram", "uvFeatures", "securityThread"}
  /\ calls' = [calls EXCEPT
                 ![i].nonces = [@ EXCEPT ![calls[i].pc] = rng + 1],
                 ![i].pc = CASE @ = "hologram" -> "uvFeatures"
                             [] @ = "uvFeatures" -> "securityThread"
                             [] OTHER -> "addBiometricData"]
  /\ rng' = rng + 1
  /\ UNCHANGED <<pki, securityConfig, clock, issued, last>>
\* addBiometricData reads serviceConfig.documents.pki.privateKey
DocBiometric(i) ==
  /\ calls[i].kind = "generate"
  /\ calls[i].pc = "addBiometricData"
  /\ calls' = [calls EXCEPT
                 ![i].bio = IF calls[i].d.biometrics # "none"
                              THEN addBiometricData(pki.privateKey, calls[i].d.biometrics)
                              ELSE NoBiometric,
                 ![i].pc = "wrapWithSecurity"]
  /\ UNCHANGED <<pki, securityConfig, rng, clock, issued, last>>
\* the QR, the signature, pdfDoc.save() and wrapWithSecurity, which draws the key and
\* the IV and reads serviceConfig.documents.pki.publicKey
DocWrap(i) ==
  /\ calls[i].kind = "generate"
  /\ calls[i].pc = "wrapWithSecurity"
  /\ LET c == calls[i]
         doc == [pdf |-> PdfSave(c.d, c.bio), signature |-> SecuritySign(JsonOfData(c.d)),
                 qrCode |-> generateVerificationQR(c.d), securityFeatures |-> c.nonces]
         out == wrapWithSecurity(doc, pki.publicKey, rng, c.now, "none")
     IN /\ calls' = [calls EXCEPT ![i].drawBase = rng, ![i].pc = "done",
                                  ![i].result = [threw |-> out.threw, error |-> out.error,
                                                 envelope |-> out.envelope]]
        /\ rng' = rng + out.draws
        /\ issued' = Append(issued, out.envelope)
  /\ UNCHANGED <<pki, securityConfig, clock, last>>

\* EnhancedDocumentService.generateSecureDocument is entered: verifyInputData accepts
\* and createBaseDocument returns
EnhancedStart ==
  /\ clock < MaxInFlight
  /\ \E d \in ConcData, backend \in {"ok", "unavailable"} :
        calls' = Append(calls, [NewCall("enhanced", d, backend, clock + 1, securityConfig)
                                  EXCEPT !.pc = "addAdvancedSecurity",
                                         !.steps = <<"verifyInputData", "createBaseDocument",
                                                     "addAdvancedSecurity">>])
  /\ clock' = clock + 1
  /\ UNCHANGED <<pki, securityConfig, rng, issued, last>>
\* addAdvancedSecurity: the k-th flag is read and its feature awaited and pushed
EnhancedFlag(i) ==
  /\ calls[i].kind = "enhanced"
  /\ calls[i].pc = "addAdvancedSecurity"
  /\ LET c == calls[i]
     IN calls' = [calls EXCEPT
                    ![i].features = IF securityConfig[AdvancedFlags[c.k]]
                                      THEN Append(@, AdvancedFeatures[c.k]) ELSE @,
                    ![i].k = @ + 1,
                    ![i].pc = IF c.k < Len(AdvancedFlags) THEN @
                              ELSE IF c.d.biometrics # "none" THEN "addBiometricFeatures"
                              ELSE "addBlockchainVerification"]
  /\ securityConfig' = securityConfigAfter(securityConfig, "addAdvancedSecurity")
  /\ UNCHANGED <<pki, rng, clock, issued, last>>
\* addBiometricFeatures: encryptBiometricData draws the IV
EnhancedBiometric(i) ==
  /\ calls[i].kind = "enhanced"
  /\ calls[i].pc = "addBiometricFeatures"
  /\ calls' = [calls EXCEPT
                 ![i].bio = encryptBiometricData(calls[i].d.biometrics, rng),
                 ![i].drawBase = rng,
                 ![i].steps = Append(@, "addBiometricFeatures"),
                 ![i].pc = "addBlockchainVerification"]
  /\ rng' = rng + 1
  /\ securityConfig' = securityConfigAfter(securityConfig, "addBiometricFeatures")
  /\ UNCHANGED <<pki, clock, issued, last>>
\* addBlockchainVerification: the awaited backend call answers or rejects; a rejection
\* goes through the catch block and out of the call
EnhancedAnchor(i) ==
  /\ calls[i].kind = "enhanced"
  /\ calls[i].pc = "addBlockchainVerification"
  /\ LET c == calls[i]
     IN calls' = IF storeOnBlockchainOk(c.backend)
                   THEN [calls EXCEPT
                           ![i].blockchainVerification = addBlockchainVerification(c.d, c.now),
                           ![i].steps = Append(@, "addBlockchainVerification"),
                           ![i].pc = "finalizeDocument"]
                   ELSE [calls EXCEPT
                           ![i].steps = Append(@, "addBlockchainVerification"),
                           ![i].pc = "done",
                           ![i].result = [threw |-> TRUE, error |-> "AnchorUnavailable",
                                          doc |-> NoFinalDoc,
                                          steps |-> Append(c.steps, "addBlockchainVerification"),
                                          features |-> c.features]]
  /\ securityConfig' = securityConfigAfter(securityConfig, "addBlockchainVerification")
  /\ UNCHANGED <<pki, rng, clock, issued, last>>
\* finalizeDocument: after its awaits it reads this.securityConfig for the returned
\* object and for the quantum step
EnhancedFinalize(i) ==
  /\ calls[i].kind = "enhanced"
  /\ calls[i].pc = "finalizeDocument"
  /\ LET c == calls[i]
     IN calls' = [calls EXCEPT
                    ![i].steps = Append(@, "finalizeDocument"),
                    ![i].pc = "done",
                    ![i].result = [threw |-> FALSE, error |-> "none",
                                   doc |-> finalizeDocument(c.d, c.bio, c.blockchainVerification,
                                                            securityConfig, c.now),
                                   steps |-> Append(c.steps, "finalizeDocument"),
                                   features |-> c.features]]
  /\ securityConfig' = securityConfigAfter(securityConfig, "finalizeDocument")
  /\ UNCHANGED <<pki, rng, clock, issued, last>>
\* verifyDocument has no await: the call runs from entry to return in one step, on an
\* envelope a finished call returned or on one the issuer never made
VerifyCall ==
  /\ clock < MaxInFlight
  /\ \E env \in {issued[j] : j \in 1 .. Len(issued)} \cup {Forge(1, TRUE)} :
        calls' = Append(calls, [NewCall("verify", NoData, "ok", clock + 1, securityConfig)
                                  EXCEPT !.pc = "done", !.env = env,
                                         !.result = verifyDocument(pki.privateKey, env)])
  /\ clock' = clock + 1
  /\ UNCHANGED <<pki, securityConfig, rng, issued, last>>

NextConc ==
  \/ DocStart
  \/ EnhancedStart
  \/ VerifyCall
  \/ \E i \in 1 .. Len(calls) : DocDraw(i)
  \/ \E i \in 1 .. Len(calls) : DocBiometric(i)
  \/ \E i \in 1 .. Len(calls) : DocWrap(i)
  \/ \E i \in 1 .. Len(calls) : EnhancedFlag(i)
  \/ \E i \in 1 .. Len(calls) : EnhancedBiometric(i)
  \/ \E i \in 1 .. Len(calls) : EnhancedAnchor(i)
  \/ \E i \in 1 .. Len(calls) : EnhancedFinalize(i)
SpecConc == InitConc /\ [][NextConc]_vars

\* ------------------------------------------------------------------ claims: the opener
\* what the four checks of a genuine open are, stated on the envelope itself
UnwrapSucceeds(priv, env) == env.key.pub = priv /\ env.key.flip = 0
TagAccepted(env) ==
  /\ DecipherAuthTag(env).set
  /\ env.package.flip = 0 /\ env.package.k = env.key.k /\ env.package.iv = env.iv
  /\ DecipherAuthTag(env) = GcmTag(env.key.k, env.iv, env.package.pt)
BlobParses(env) == env.package.pt.wellformed
SignatureVerifies(env) ==
  LET w == env.package.pt.w
  IN w.signature.forged = FALSE /\ w.signature.msg = [kind |-> "indexed", d |-> w.document.d]
AllFourChecks(priv, env) ==
  UnwrapSucceeds(priv, env) /\ TagAccepted(env) /\ BlobParses(env) /\ SignatureVerifies(env)
TheFailure ==
  [verified |-> FALSE, document |-> NoDocument, metadata |-> NoMetadata,
   error |-> "Document verification failed"]
KeysMatch == pki.publicKey = pki.privateKey

\* C1: verifyDocument returns verified:true only when the key unwrap, the tag check,
\* the parse and the signature check all succeeded in that call; whenever one of them
\* fails the result is verified:false and carries no document and no metadata.
C1_ValidOnlyIfAllChecks ==
  last.op = "verify" =>
    /\ last.result.verified =>
          /\ AllFourChecks(pki.privateKey, last.env)
          /\ last.steps = <<"unwrap", "decrypt", "parse", "signature">>
    /\ ~AllFourChecks(pki.privateKey, last.env) =>
          /\ last.result.verified = FALSE
          /\ last.result.document = NoDocument
          /\ last.result.metadata = NoMetadata
\* an untouched issued envelope, opened with the matching key: the key unwraps, a
\* later check fails, and the call reports verified:false
C1_Witness ==
  /\ last.op = "verify" /\ last.source = "issued" /\ last.tamper = "none"
  /\ UnwrapSucceeds(pki.privateKey, last.env)
  /\ Len(last.steps) > 1
  /\ last.result.verified = FALSE

\* C2: opening, with the matching private key, an envelope that generateSecureDocument
\* sealed for document request d returns verified:true and a document equal to d.
C2_RoundTrip ==
  (last.op = "verify" /\ last.source = "issued" /\ last.tamper = "none" /\ KeysMatch) =>
    /\ last.result.verified
    /\ last.result.document.d = issued[last.index].package.pt.w.document.d
    /\ last.result.document.repr = "bytes"

\* C3: an issued envelope with one byte of its ciphertext, its authentication tag or
\* its wrapped key changed never opens as verified:true; verifyDocument returns the
\* failure value, which holds nothing of the plaintext.
C3_TamperInvalid ==
  (last.op = "verify" /\ last.source = "issued"
     /\ last.tamper \in {"package", "authTag", "key"}) =>
    /\ last.result.verified = FALSE
    /\ last.result.document = NoDocument
    /\ last.result.metadata = NoMetadata
\* a changed ciphertext byte, opened with the matching key
C3_Witness ==
  /\ last.op = "verify" /\ last.source = "issued" /\ last.tamper = "package"
  /\ KeysMatch
  /\ last.env.package.flip = 1
  /\ last.result.verified = FALSE

\* C4: opening an envelope whose key was wrapped under a public key that the private
\* key does not match fails at the key unwrap: the result is verified:false, the error
\* caught and logged is the unwrap's, and neither the decrypt nor the signature check
\* runs.
C4_KeyIsolation ==
  (last.op = "verify" /\ last.env.key.pub # pki.privateKey) =>
    /\ last.result.verified = FALSE
    /\ last.logged = "KeyUnwrapFailed"
    /\ last.steps = <<"unwrap">>
\* an untouched issued envelope, opened under a configuration whose keys do not match
C4_Witness ==
  /\ last.op = "verify" /\ last.source = "issued" /\ last.tamper = "none"
  /\ pki.publicKey # pki.privateKey
  /\ last.logged = "KeyUnwrapFailed"

\* C5: every failing verifyDocument call returns one and the same value, whichever
\* check failed: verified:false, no document, no metadata, and an error text that does
\* not name the check.
C5_OneFailureOutcome ==
  (last.op = "verify" /\ last.logged # "none") =>
    /\ last.result = TheFailure
    /\ last.result.error \notin {"KeyUnwrapFailed", "TamperedCiphertext",
                                  "MalformedEnvelope", "SignatureMismatch"}
\* a failure past the first check (the key unwrapped, the decrypt failed)
C5_Witness ==
  /\ last.op = "verify"
  /\ last.logged = "TamperedCiphertext"
  /\ last.result = TheFailure

\* ------------------------------------------------------------------ claims: the sealer
AllFields == {"package", "key", "iv"}
SealStepFailed == last.error \in SealFaults \ {"none"}

\* C6: when the anchoring backend is unavailable during
\* EnhancedDocumentService.generateSecureDocument, the call still returns its result,
\* with no anchor reference stored and the metadata flagged anchor-pending.
C6_AnchorDegradation ==
  (last.op = "enhanced" /\ last.backend = "unavailable"
     /\ last.steps[Len(last.steps)] = "addBlockchainVerification") =>
    /\ last.threw = FALSE
    /\ last.doc # NoFinalDoc
    /\ last.doc.verification.blockchain.reference.stored = FALSE
    /\ "anchorPending" \in DOMAIN last.doc.metadata

C8_KeyFreshness ==
  /\ \A i, j \in 1 .. Len(issued) :
        i # j => /\ issued[i].package.k # issued[j].package.k
                 /\ issued[i].iv # issued[j].iv
                 /\ issued[i].package.k # issued[j].iv
  /\ \A i \in 1 .. Len(issued) :
        /\ issued[i].package.k \in 1 .. rng
        /\ issued[i].iv \in 1 .. rng
        /\ issued[i].iv # issued[i].package.k
        /\ issued[i].present = AllFields
        /\ issued[i].key = PublicEncrypt(pki.publicKey, issued[i].package.k)
\* two envelopes issued
C8_Witness == Len(issued) = 2 /\ issued[1].package.k # issued[2].package.k

\* ------------------------------------------------------------------ claims: biometrics
\* whether the holder of the key material can read the biometric blob: a private-key
\* RSA operation is undone with either key of the pair, aes-256-gcm with its key
CanRecover(material, bio) ==
  \/ bio.alg = "rsa-private" /\ bio.key \in material.pairs
  \/ bio.alg = "aes-256-gcm" /\ bio.key \in material.symmetric
EnvelopeKeyMaterial(env) ==
  [pairs |-> {pki.publicKey, pki.privateKey}, symmetric |-> {env.package.k}]

\* C9: the biometric payload of every document that carries one is encrypted under
\* the biometric master key, and the holder of the envelope key material (the
\* per-document key and the envelope key pair) cannot recover it.
C9_BiometricIsolation ==
  /\ \A i \in 1 .. Len(issued) :
        LET bio == issued[i].package.pt.w.document.bio
        IN bio.alg # "none" =>
             /\ bio.key = MasterKey
             /\ ~CanRecover(EnvelopeKeyMaterial(issued[i]), bio)
  /\ (last.op = "enhanced" /\ ~last.threw /\ last.doc.document.bio.alg # "none") =>
        /\ last.doc.document.bio.key = MasterKey
        /\ last.doc.document.bio.key \notin {pki.publicKey, pki.privateKey}

\* ------------------------------------------------------------------ claims: features
FeatureKinds == <<"watermark", "hologram", "microprint", "uv", "rfid">>
Enabled(cfg, kind) ==
  CASE kind = "watermark" -> cfg.watermark
    [] kind = "hologram" -> cfg.hologram
    [] kind = "microprint" -> cfg.microprint
    [] kind = "uv" -> cfg.uvFeatures
    [] kind = "rfid" -> cfg.rfidChip
Rank(kind) == CHOOSE n \in 1 .. Len(FeatureKinds) : FeatureKinds[n] = kind

\* C10: for every configuration of the five flags, the list addAdvancedSecurity
\* produces holds exactly one feature of each enabled kind, none of a disabled kind,
\* nothing else, in the order watermark, hologram, microprint, uv, rfid.
C10_FeatureSelection ==
  (last.op = "enhanced" /\ Len(last.steps) >= 3) =>
    LET f == last.features
    IN /\ \A n \in 1 .. Len(FeatureKinds) :
             Cardinality({i \in 1 .. Len(f) : f[i].type = FeatureKinds[n]})
               = IF Enabled(securityConfig, FeatureKinds[n]) THEN 1 ELSE 0
       /\ \A i \in 1 .. Len(f) :
             /\ \E n \in 1 .. Len(FeatureKinds) : f[i].type = FeatureKinds[n]
             /\ f[i].data # ""
       /\ \A i, j \in 1 .. Len(f) : i < j => Rank(f[i].type) < Rank(f[j].type)
\* hologram and uv disabled: the list is watermark, microprint, rfid
C10_Witness ==
  /\ last.op = "enhanced" /\ Len(last.steps) >= 3
  /\ ~securityConfig.hologram /\ ~securityConfig.uvFeatures
  /\ securityConfig.watermark /\ securityConfig.microprint /\ securityConfig.rfidChip
  /\ Len(last.features) = 3
  /\ last.features[3].type = "rfid"

\* ------------------------------------------------------------------ claims: validation
MissingField(d) == d.idNumber = "none" \/ d.documentType = "none"
ValidationErrors == {"Invalid ID number", "Invalid document type"}
InputRejections == ValidationErrors \cup {"Identity verification failed"}
\* the half of C11 that is about EnhancedDocumentService
EnhancedValidates ==
  last.op = "enhanced" =>
    /\ MissingField(last.d) <=> last.error \in ValidationErrors
    /\ last.error \in ValidationErrors =>
          /\ last.threw /\ last.doc = NoFinalDoc
          /\ last.steps = <<"verifyInputData">> /\ last.features = <<>>

\* C11: generateSecureDocument rejects its input exactly when the identity number or
\* the document type is missing: it then fails with the validation error before any
\* feature, anchoring, signing or sealing step, and an input with both fields is not
\* rejected by the input check.
C11_Validation ==
  /\ EnhancedValidates
  /\ last.op = "generate" =>
        /\ MissingField(last.d) =>
              (last.threw /\ last.error \in ValidationErrors /\ last.envelope = NoEnvelope)
        /\ ~MissingField(last.d) => last.error \notin InputRejections

\* ------------------------------------------------------------------ claims: opener order
OpenSteps == <<"unwrap", "decrypt", "parse", "signature">>
\* the first of the four checks that the envelope fails, 5 when it passes them all
FirstFailing(priv, env) ==
  IF ~UnwrapSucceeds(priv, env) THEN 1
  ELSE IF ~TagAccepted(env) THEN 2
  ELSE IF ~BlobParses(env) THEN 3
  ELSE IF ~SignatureVerifies(env) THEN 4
  ELSE 5
FailureNames == <<"KeyUnwrapFailed", "TamperedCiphertext", "MalformedEnvelope",
                  "SignatureMismatch">>

\* C14: every verifyDocument call runs its checks in the order unwrap, decrypt, parse,
\* signature, each at most once, stops at the first check that fails (that check is
\* the last one run and the error logged is its error), and ends in exactly one
\* outcome returned as a value: verified:true after all four, the failure otherwise.
C14_OpenerOrder ==
  last.op = "verify" =>
    LET n == FirstFailing(pki.privateKey, last.env)
    IN /\ last.steps = SubSeq(OpenSteps, 1, IF n > 4 THEN 4 ELSE n)
       /\ n <= 4 => (last.logged = FailureNames[n] /\ last.result = TheFailure)
       /\ n > 4 => (last.logged = "none" /\ last.result.verified)
       /\ last.result.verified \in BOOLEAN
       /\ last.result.verified <=> last.logged = "none"
\* the key unwraps, the decrypt fails: the call stops there, parse and signature
\* check not run, and returns the failure
C14_Witness ==
  /\ last.op = "verify"
  /\ UnwrapSucceeds(pki.privateKey, last.env)
  /\ last.steps = <<"unwrap", "decrypt">>
  /\ last.result.verified = FALSE

\* ------------------------------------------------------------------ claims: canonical bytes
\* the same subject data as a mapping of field to value
SameRequest(a, b) ==
  a.idNumber = b.idNumber /\ a.documentType = b.documentType /\ a.biometrics = b.biometrics
\* the half of C12 that holds: within one run the signed bytes are the hashed bytes
SignedIsHashed ==
  \A i \in 1 .. Len(last.runs) :
    /\ last.runs[i].qrDigest = [sha256 |-> last.runs[i].signed]
    /\ last.runs[i].anchorDigest = [sha256 |-> last.runs[i].signed]

\* C12: in every run the bytes signed are the bytes hashed for the QR / anchor digest,
\* one canonical serialization, so two runs on equal subject data with equal nonces
\* sign equal bytes and give equal digests.
C12_CanonicalSharing ==
  /\ SignedIsHashed
  /\ \A i, j \in 1 .. Len(last.runs) :
        (SameRequest(last.runs[i].d, last.runs[j].d)
           /\ last.runs[i].nonces = last.runs[j].nonces) =>
          /\ last.runs[i].signed = last.runs[j].signed
          /\ last.runs[i].qrDigest = last.runs[j].qrDigest
          /\ last.runs[i].anchorDigest = last.runs[j].anchorDigest

\* ------------------------------------------------------------------ claims: interleaving
\* what a call returns when it runs with no other call on the instance: the sequential
\* operator on the call's own inputs, its own draws and its own clock reading, with
\* the configuration and keys the instance had when the call was entered
AloneGenerate(c) ==
  LET doc == [pdf |-> PdfSave(c.d, IF c.d.biometrics # "none"
                                     THEN addBiometricData(1, c.d.biometrics) ELSE NoBiometric),
              signature |-> SecuritySign(JsonOfData(c.d)),
              qrCode |-> generateVerificationQR(c.d), securityFeatures |-> c.nonces]
      out == wrapWithSecurity(doc, 1, c.drawBase, c.now, "none")
  IN [threw |-> out.threw, error |-> out.error, envelope |-> out.envelope]
AloneEnhanced(c) ==
  LET out == enhancedGenerateSecureDocument(c.d, TRUE, c.backend, c.cfg0, c.drawBase, c.now)
  IN [threw |-> out.threw, error |-> out.error, doc |-> out.doc, steps |-> out.steps,
      features |-> out.features]
Alone(c) ==
  CASE c.kind = "generate" -> AloneGenerate(c)
    [] c.kind = "enhanced" -> AloneEnhanced(c)
    [] OTHER -> verifyDocument(1, c.env)
\* the draws of a generate call were consecutive, as they are when it runs alone
DrawsInARow(c) == c.nonces = addSecurityFeatures(c.drawBase - 3)

\* C13: however generateSecureDocument and verifyDocument calls on one instance
\* interleave, each finished call returned what it returns when run alone, and the
\* configuration and the key material are as they were at construction.
C13_Isolation ==
  /\ securityConfig = DefaultSecurityConfig
  /\ pki = [publicKey |-> 1, privateKey |-> 1]
  /\ \A i \in 1 .. Len(calls) :
        calls[i].pc = "done" =>
          /\ calls[i].result = Alone(calls[i])
          /\ (calls[i].kind = "generate" /\ DrawsInARow(calls[i])) =>
                LET c == calls[i]
                    out == generateSecureDocument(c.d, "other", "verified", TRUE, "none",
                                                  pki, c.drawBase - 3, c.now)
                IN c.result = [threw |-> out.threw, error |-> out.error,
                               envelope |-> out.envelope]
\* two finished calls whose steps interleaved: the draw of an enhanced call fell
\* between the draws of a generate call, and both returned
C13_Witness ==
  \E i, j \in 1 .. Len(calls) :
    /\ calls[i].kind = "generate" /\ calls[i].pc = "done" /\ ~DrawsInARow(calls[i])
    /\ calls[j].kind = "enhanced" /\ calls[j].pc = "done" /\ ~calls[j].result.threw
    /\ calls[j].bio.iv > calls[i].nonces.hologram
    /\ calls[j].bio.iv < WrapKeyDraw(calls[i].drawBase)
====
